---- MODULE Spec2Model ----
(***************************************************************************)
(* A model of phi-rs: the generation session (InferIter) of model.rs, the  *)
(* drain helpers built on it, and the prefix-pruning choice algorithm      *)
(* (Model::try_choose_item), the generation of token_string.rs and the     *)
(* scene memory of scene.rs.                                               *)
(*                                                                         *)
(* The neural network, the sampler and the tokenizer are external: the     *)
(* sampled token is an arbitrary function of everything the code hands to  *)
(* the engine (SampleKey), remembered in `oracle` so that the engine is    *)
(* arbitrary but deterministic.                                            *)
(*                                                                         *)
(* Text is a sequence of one-character strings.  Optional numbers use      *)
(* None (-1); temperatures and penalties are in tenths (0.2 is 2).         *)
(***************************************************************************)
EXTENDS Integers, Sequences, FiniteSets, TLC

\* ------------------------------------------------------------- bounds
\* Bits of the unsigned seed type in the model (u64 in the program).
SeedBits == 2
\* Tokens one session may generate under SpecSession.
MaxGen == 2
\* Tokens one session may generate under SpecUntil.
MaxGenUntil == 4
\* Number of buffer entries and counter values the model keeps exactly: of a
\* longer buffer it keeps the last WindowLen entries, of a larger counter
\* whether it is odd or even.
WindowLen == 6
\* Largest attempts argument of try_choose_item.
MaxAttempts == 2
\* Characters of generated text one attempt of try_choose_item may gather.
MaxText == 3
\* MAX_TOKENS of model.rs (2048 in the program), scaled.
MAX_TOKENS == 2
\* Tokens of short-term memory the model lets a scene gather.
MaxShort == 7
\* Calls of compress_memory and infer_any the model lets one scene take.
MaxTurns == 3
\* Calls of create_instruct_prompt the model follows.
MaxCalls == 2

None == -1
NoSession == [exists |-> FALSE]
\* Option<String>
NoneStr == [some |-> FALSE, value |-> <<>>]
Some(x) == [some |-> TRUE, value |-> x]
SessionIds == {1, 2}

U64Modulus == 2 ^ SeedBits
U64Max == U64Modulus - 1

\* --------------------------------------------------------------- text
Min(a, b) == IF a < b THEN a ELSE b

\* usize::saturating_sub
SaturatingSub(a, b) == IF a > b THEN a - b ELSE 0

\* u64::wrapping_add
WrappingAdd(a, b) == (a + b) % U64Modulus

\* str::starts_with
StartsWith(s, p) ==
    /\ Len(p) <= Len(s)
    /\ SubSeq(s, 1, Len(p)) = p

\* The 0-based byte offsets at which pattern p occurs in s.
Occurrences(s, p) ==
    {i \in 0..(Len(s) - Len(p)) : SubSeq(s, i + 1, i + Len(p)) = p}

\* str::contains
Contains(s, p) == Occurrences(s, p) # {}

\* str::split(p).next().unwrap(): the text before the first occurrence of p,
\* or all of s when p does not occur.
SplitFirst(s, p) ==
    IF Contains(s, p)
    THEN LET i == CHOOSE k \in Occurrences(s, p) :
                      \A j \in Occurrences(s, p) : k <= j
         IN  SubSeq(s, 1, i)
    ELSE s

Whitespace == {" ", "\n"}

RECURSIVE TrimStart(_)
TrimStart(s) ==
    IF s # <<>> /\ Head(s) \in Whitespace THEN TrimStart(Tail(s)) ELSE s

RECURSIVE TrimEnd(_)
TrimEnd(s) ==
    IF s # <<>> /\ s[Len(s)] \in Whitespace
    THEN TrimEnd(SubSeq(s, 1, Len(s) - 1))
    ELSE s

\* str::trim
Trim(s) == TrimEnd(TrimStart(s))

LowerChar(c) ==
    CASE c = "S" -> "s"
      [] c = "W" -> "w"
      [] OTHER -> c

\* str::to_lowercase
ToLowercase(s) == [i \in 1..Len(s) |-> LowerChar(s[i])]

\* ---------------------------------------------------------- tokenizer
\* The end-of-text token "<|endoftext|>" (model.rs: get_token).
EosToken == 0

\* Model::detokenize of one token: the tokenizer's table.  Token 10 is a
\* special token other than end-of-text: it decodes to the empty text.
Detokenize(t) ==
    CASE t = 1 -> <<"a">>
      [] t = 2 -> <<"b">>
      [] t = 3 -> <<"]">>
      [] t = 4 -> <<"c", "d">>
      [] t = 5 -> <<"b", "]", "c">>
      [] t = 6 -> <<"s">>
      [] t = 7 -> <<"w">>
      [] t = 8 -> <<"x">>
      [] t = 9 -> <<" ">>
      [] t = 11 -> <<"S">>
      [] t = 12 -> <<"[">>
      [] t = 13 -> <<"\n">>
      [] t = 14 -> <<":">>
      [] t = 15 -> <<"\"">>
      [] t = 16 -> <<"J">>
      [] t = 17 -> <<"R">>
      [] t = 18 -> <<"M">>
      [] t = 19 -> <<".">>
      [] t = 20 -> <<"P">>
      [] OTHER -> <<>>

\* The token the tokenizer encodes one character as.
Encode(c) ==
    CASE c = "a" -> 1
      [] c = "b" -> 2
      [] c = "]" -> 3
      [] c = "s" -> 6
      [] c = "w" -> 7
      [] c = "x" -> 8
      [] c = " " -> 9
      [] c = "S" -> 11
      [] c = "[" -> 12
      [] c = "\n" -> 13
      [] c = ":" -> 14
      [] c = "\"" -> 15
      [] c = "J" -> 16
      [] c = "R" -> 17
      [] c = "M" -> 18
      [] c = "." -> 19
      [] c = "P" -> 20
      [] OTHER -> 8

\* Model::tokenize of a text: the tokenizer's encoding, one token for
\* every character here.
Tokenize(text) == [i \in 1..Len(text) |-> Encode(text[i])]

RECURSIVE DetokenizeAll(_)
DetokenizeAll(ts) ==
    IF ts = <<>> THEN <<>> ELSE Detokenize(Head(ts)) \o DetokenizeAll(Tail(ts))

\* ------------------------------------------------------------- state
VARIABLES
    model_seed,   \* Model.seed
    sessions,     \* the InferIter values alive, by slot
    hist,         \* per slot: the arguments of infer_iter and what next_token returned
    oracle,       \* the engine: the token it samples for each key seen so far
    forwards,     \* engine forward passes made by the sessions so far
    op,           \* the operation that ran last, with its result
    cu,           \* the frame of a running complete_until
    ch,           \* the frame of a running try_choose_item
    scene,        \* the Scene: its memories, characters and last speaker
    sop,          \* the Scene operation that ran last, with what it did
    tcall,        \* the TokenString::next call that ran last
    icall         \* the create_instruct_prompt call that ran last

vars == <<model_seed, sessions, hist, oracle, forwards, op, cu, ch, scene, sop, tcall, icall>>

\* n + 1 on a counter: exact up to WindowLen, then alternating between
\* WindowLen - 1 and WindowLen.
Inc(n) == IF n < WindowLen THEN n + 1 ELSE n - 1

\* Vec::push on a buffer of which the model keeps the last WindowLen entries.
PushToken(buf, t) ==
    IF Len(buf) < WindowLen THEN Append(buf, t) ELSE Append(Tail(buf), t)

\* Vec::extend on such a buffer: PushToken for every token of ts in turn.
PushMany(buf, ts) ==
    LET all == buf \o ts
    IN  SubSeq(all, SaturatingSub(Len(all), WindowLen) + 1, Len(all))

\* ------------------------------------------------- Model::infer_iter
\* Faulty variant: the pipeline of a session already running, cache included.
SharedPipeline ==
    IF \E id \in SessionIds : sessions[id].exists
    THEN sessions[CHOOSE id \in SessionIds : sessions[id].exists].pipeline
    ELSE <<>>

\* MixFormer::new: a pipeline of its own for every session, its cache empty.
NewPipeline == <<>>

\* LogitsProcessor::new(seed, temp, top_p)
NewLogitsProcessor(seed, temp, top_p) ==
    [seed |-> seed, temp |-> temp, top_p |-> top_p, draws |-> 0]

\* InferIter::new
InferIterNew(prompt, pipeline, logits_processor, repeat_penalty, repeat_last_n, eos_token) ==
    [exists |-> TRUE,
     tokens |-> prompt,
     step |-> 0,
     pipeline |-> pipeline,
     logits_processor |-> logits_processor,
     repeat_penalty |-> repeat_penalty,
     repeat_last_n |-> repeat_last_n,
     eos_token |-> eos_token,
     reached_eos |-> FALSE]

\* Faulty variant: infer_iter without the test for an empty prompt.
InferIterUnchecked(prompt, seed, temp, top_p, repeat_penalty, repeat_last_n) ==
    InferIterNew(prompt, NewPipeline,
                 NewLogitsProcessor(WrappingAdd(seed, model_seed), temp, top_p),
                 repeat_penalty, repeat_last_n, EosToken)

\* Model::infer_iter: Err (NoSession) for an empty prompt, else the session.
InferIter(prompt, seed, temp, top_p, repeat_penalty, repeat_last_n) ==
    LET seed2 == WrappingAdd(seed, model_seed)
    IN  IF prompt = <<>>
        THEN NoSession
        ELSE InferIterNew(prompt, NewPipeline,
                          NewLogitsProcessor(seed2, temp, top_p),
                          repeat_penalty, repeat_last_n, EosToken)

\* ----------------------------------------------- InferIter::next_token
\* Faulty variant: the whole buffer is the context of every step.
ContextWhole(s) == s.tokens

\* The context of this step: the whole buffer on the first step, then the
\* last token.
Context(s) ==
    LET context_size == IF s.step > 0 THEN 1 ELSE Len(s.tokens)
    IN  SubSeq(s.tokens,
               SaturatingSub(Len(s.tokens), context_size) + 1,
               Len(s.tokens))

\* pipeline.forward(input): the pipeline keeps what it was given.
Forward(pipeline, context) == PushMany(pipeline, context)

\* What apply_repeat_penalty is given: nothing when the penalty is off.
PenaltyWindow(s) ==
    IF s.repeat_penalty = 10 \/ s.repeat_last_n = 0
    THEN <<>>
    ELSE <<s.repeat_penalty,
           SubSeq(s.tokens,
                  SaturatingSub(Len(s.tokens), s.repeat_last_n) + 1,
                  Len(s.tokens))>>

\* Everything the sampled token can depend on: what the pipeline has seen,
\* the penalty, and the sampler's configuration and position.
SampleKey(s) ==
    <<Forward(s.pipeline, Context(s)), PenaltyWindow(s), s.logits_processor>>

\* The tokens the engine may sample for a key: the one it sampled before
\* for the same key, any token of the vocabulary for a new key.
Sampled(key, vocab) ==
    IF \E p \in oracle : p[1] = key
    THEN {p[2] : p \in {q \in oracle : q[1] = key}}
    ELSE vocab

\* Faulty variant: the sampled token is pushed before the end-of-text test.
SteppedPushFirst(s, next_token) ==
    LET fed == [s EXCEPT !.pipeline = Forward(s.pipeline, Context(s)),
                         !.logits_processor.draws = Inc(@),
                         !.step = Inc(@),
                         !.tokens = PushToken(@, next_token)]
    IN  IF next_token # s.eos_token THEN fed ELSE [fed EXCEPT !.reached_eos = TRUE]

\* Faulty variant: the buffer keeps the context of the step and the token.
SteppedKeepingContext(s, next_token) ==
    LET fed == [s EXCEPT !.pipeline = Forward(s.pipeline, Context(s)),
                         !.logits_processor.draws = Inc(@),
                         !.step = Inc(@)]
    IN  IF next_token # s.eos_token
        THEN [fed EXCEPT !.tokens = PushToken(Context(s), next_token)]
        ELSE [fed EXCEPT !.reached_eos = TRUE]

\* Faulty variant: the step is counted only when the token is appended.
SteppedCountingTokens(s, next_token) ==
    LET fed == [s EXCEPT !.pipeline = Forward(s.pipeline, Context(s)),
                         !.logits_processor.draws = Inc(@)]
    IN  IF next_token # s.eos_token
        THEN [fed EXCEPT !.step = Inc(@), !.tokens = PushToken(@, next_token)]
        ELSE [fed EXCEPT !.reached_eos = TRUE]

\* The session after a step that sampled next_token.
Stepped(s, next_token) ==
    LET fed == [s EXCEPT !.pipeline = Forward(s.pipeline, Context(s)),
                         !.logits_processor.draws = Inc(@),
                         !.step = Inc(@)]
    IN  IF next_token # s.eos_token
        THEN [fed EXCEPT !.tokens = PushToken(@, next_token)]
        ELSE [fed EXCEPT !.reached_eos = TRUE]

\* The value next_token returns for a sampled token.
Returned(s, next_token) ==
    IF next_token # s.eos_token THEN next_token ELSE None

\* Faulty variant: next_token without its early return.
ExitsEarlyNever(s) == FALSE

\* Whether next_token returns early, without touching the engine.
ExitsEarly(s) == s.reached_eos

\* InferIter::next_token, given the token the engine samples if asked:
\* the session afterwards, the value returned, whether the engine ran, and
\* the context it was given.
NextToken(s, next_token) ==
    IF ExitsEarly(s)
    THEN [session |-> s, ret |-> None, forwarded |-> FALSE, context |-> <<>>]
    ELSE [session |-> Stepped(s, next_token),
          ret |-> Returned(s, next_token),
          forwarded |-> TRUE,
          context |-> Context(s)]

\* ------------------------------------------ InferIter::complete_until
NoFrame == [pc |-> "idle", id |-> 0, end_string |-> <<>>, response |-> <<>>, got |-> <<>>]

\* Faulty variant: complete_until that keeps the whole text of the stopping token.
CompleteUntilTurnWhole(frame, ret) ==
    IF ret = None
    THEN [frame EXCEPT !.pc = "done"]
    ELSE LET token_str == Detokenize(ret)
         IN  IF Contains(token_str, frame.end_string)
             THEN [frame EXCEPT !.response = @ \o token_str, !.pc = "done"]
             ELSE [frame EXCEPT !.response = @ \o token_str]

\* One turn of the while loop of complete_until: ret is what next_token
\* returned.
CompleteUntilTurn(frame, ret) ==
    IF ret = None
    THEN [frame EXCEPT !.pc = "done"]
    ELSE LET token_str == Detokenize(ret)
         IN  IF Contains(token_str, frame.end_string)
             THEN [frame EXCEPT
                     !.response = @ \o SplitFirst(token_str, frame.end_string),
                     !.pc = "done"]
             ELSE [frame EXCEPT !.response = @ \o token_str]


\* No scene, as long as Model::new_scene was not called.
NoScene == [exists |-> FALSE, long_term_memory |-> <<>>, short_term_memory |-> <<>>,
            model |-> [seed |-> 0], characters |-> <<>>, last_speaker |-> NoneStr]

NoTurn == [kind |-> "none", character |-> <<>>, text |-> <<>>]

NoSceneOp ==
    [name |-> "none", pre |-> NoScene, arg |-> 0, seed |-> 0, selected |-> "none",
     speaker |-> NoneStr, turn |-> NoTurn, panicked |-> FALSE,
     passes |-> 0, compressed |-> FALSE, instruction |-> <<>>,
     shortened |-> <<>>, saved |-> <<>>, turns |-> 0]

NoCall == [name |-> "none", self |-> <<>>, seed |-> 0, sampler_seed |-> 0,
           max_tokens |-> 0, stop_at |-> {}, panicked |-> FALSE, tokens |-> <<>>,
           passes |-> 0]

\* ------------------------------------- Model::create_instruct_prompt
\* The key create_instruct_prompt treats apart.
Response == <<"R", "e", "s", "p", "o", "n", "s", "e">>

NoPrompt == [name |-> "none", instruction |-> <<>>, given |-> FALSE,
             inserted |-> <<>>, iterated |-> <<>>, prompt |-> <<>>,
             tokens |-> <<>>, calls |-> 0, before |-> <<>>]

\* The label of the instruction section.
Instruction == <<"I", "n", "s", "t", "r", "u", "c", "t", "i", "o", "n">>

\* format!("### {}:\n{}\n", key, value)
Section(key, value) ==
    <<"#", "#", "#", " ">> \o key \o <<":", "\n">> \o value \o <<"\n">>

\* The for loop over the map, its pairs <<key, value>> in the order the
\* map iterates them: the sections, the "Response" key skipped.
RECURSIVE Sections(_)
Sections(iterated) ==
    IF iterated = <<>> THEN <<>>
    ELSE IF Head(iterated)[1] = Response
         THEN Sections(Tail(iterated))
         ELSE Section(Head(iterated)[1], Head(iterated)[2]) \o Sections(Tail(iterated))

\* h.get("Response")
GetResponse(iterated) ==
    IF \E i \in 1..Len(iterated) : iterated[i][1] = Response
    THEN Some(iterated[CHOOSE i \in 1..Len(iterated) : iterated[i][1] = Response][2])
    ELSE NoneStr

\* The text create_instruct_prompt builds: `given` tells whether
\* extra_information is Some, iterated is the map in its iteration order.
InstructPromptText(instruction, given, iterated) ==
    (IF given THEN Sections(iterated) ELSE <<>>)
      \o <<"#", "#", "#", " ">> \o Instruction \o <<":", "\n">> \o instruction \o <<"\n">>
      \o <<"#", "#", "#", " ">> \o Response \o <<":", "\n">>
      \o (IF given /\ GetResponse(iterated).some
          THEN GetResponse(iterated).value ELSE <<>>)

\* Model::create_instruct_prompt
CreateInstructPrompt(instruction, given, iterated) ==
    Tokenize(InstructPromptText(instruction, given, iterated))

\* The orders a HashMap holding the pairs inserted may iterate them in:
\* every one, the hasher being seeded at random for every map.
IterationOrders(inserted) ==
    {q \in [1..Len(inserted) -> {inserted[i] : i \in 1..Len(inserted)}] :
        \A i, j \in 1..Len(inserted) : q[i] = q[j] => i = j}

\* -------------------------------------------------- token_string.rs
\* str::ends_with
EndsWith(s, p) ==
    /\ Len(p) <= Len(s)
    /\ SubSeq(s, Len(s) - Len(p) + 1, Len(s)) = p

\* The token sequences of at most n tokens the engine may sample in turn.
Streams(vocab, n) == UNION {[1..k -> vocab] : k \in 0..n}

\* The for loop of next_2 over the session infer_iter, the engine sampling
\* the tokens of stream in turn: the tokens collected, the engine passes
\* made, what is left of stream, and whether the loop came to its end.
RECURSIVE Collect(_, _, _, _, _, _)
Collect(infer_iter, stream, tokens, max_tokens, stop_at, passes) ==
    IF stream = <<>>
    THEN [tokens |-> tokens, passes |-> passes, rest |-> stream, ended |-> FALSE]
    ELSE LET r == NextToken(infer_iter, Head(stream))
             passes2 == IF r.forwarded THEN passes + 1 ELSE passes
         IN  IF r.ret = None
             THEN [tokens |-> tokens, passes |-> passes2, rest |-> Tail(stream),
                   ended |-> TRUE]
             ELSE LET pushed == Append(tokens, r.ret)
                      token_str == Detokenize(r.ret)
                  IN  IF \/ \E stop \in stop_at : EndsWith(token_str, stop)
                         \/ Len(pushed) >= max_tokens
                      THEN [tokens |-> pushed, passes |-> passes2,
                            rest |-> Tail(stream), ended |-> TRUE]
                      ELSE Collect(r.session, Tail(stream), pushed, max_tokens,
                                   stop_at, passes2)

\* The streams of the engine that take the loop of next_2 to its end and
\* no further.
Exact(infer_iter, max_tokens, stop_at, vocab) ==
    {stream \in Streams(vocab, IF max_tokens > 1 THEN max_tokens ELSE 1) :
        LET c == Collect(infer_iter, stream, <<>>, max_tokens, stop_at, 0)
        IN  c.ended /\ c.rest = <<>>}

\* TokenString::next_2, for everything the engine may sample from vocab:
\* the token strings it may return (panicked: the unwrap of infer_iter's
\* error on an empty buffer).
Next2(self, seed, max_tokens, temp, top_p, repeat_penalty, repeat_last_n, stop_at, vocab) ==
    LET infer_iter == InferIter(self, seed, temp, top_p, repeat_penalty, repeat_last_n)
    IN  IF ~infer_iter.exists
        THEN {[panicked |-> TRUE, tokens |-> <<>>, passes |-> 0, sampler_seed |-> 0]}
        ELSE {[panicked |-> FALSE,
               tokens |-> Collect(infer_iter, stream, <<>>, max_tokens, stop_at, 0).tokens,
               passes |-> Collect(infer_iter, stream, <<>>, max_tokens, stop_at, 0).passes,
               sampler_seed |-> infer_iter.logits_processor.seed] :
                  stream \in Exact(infer_iter, max_tokens, stop_at, vocab)}

\* fold(0u64, |acc, &token| acc.wrapping_add(token as u64))
RECURSIVE FoldWrappingAdd(_)
FoldWrappingAdd(tokens) ==
    IF tokens = <<>> THEN 0
    ELSE WrappingAdd(FoldWrappingAdd(SubSeq(tokens, 1, Len(tokens) - 1)),
                     tokens[Len(tokens)])

\* Faulty variant: the seed from the first 4 tokens, as shortened takes it.
NextSeedFirst(self) == FoldWrappingAdd(SubSeq(self, 1, Min(4, Len(self))))

\* The seed of TokenString::next: the fold over
\* self.get(self.len().saturating_sub(4)..).
NextSeed(self) ==
    FoldWrappingAdd(SubSeq(self, SaturatingSub(Len(self), 4) + 1, Len(self)))

\* TokenString::next
TokenStringNext(self, max_tokens, temp, stop_at, vocab) ==
    Next2(self, NextSeed(self), max_tokens, temp, None, 0, 0, stop_at, vocab)

\* TokenString::shortened_2 hands this to Model::instruct_2.
ParaphraseInstruction == <<"P", "\n">>

\* The prompt of the instruct protocol around a tokenized instruction:
\* "### Instruction:\n{instruction}\n### Response:\n".
InstructPrompt(instruction) ==
    Tokenize(<<":", "\n">>) \o instruction \o Tokenize(<<"\n", ":", "\n">>)

\* Model::instruct_2: a generation on the instruct prompt, bounded by the
\* token budget and the stop markers.
Instruct2(instruction, seed, max_tokens, temp, stop_at, vocab) ==
    Next2(InstructPrompt(instruction), seed, max_tokens, temp, None, 10, 0,
          stop_at, vocab)

\* TokenString::shortened_2
Shortened2(self, seed, max_tokens, vocab) ==
    LET instruction == Tokenize(ParaphraseInstruction) \o self
    IN  {[instruction |-> instruction, tokens |-> r.tokens, passes |-> r.passes,
          panicked |-> r.panicked] :
            r \in Instruct2(instruction, seed, max_tokens, 5, {}, vocab)}

\* TokenString::shortened: the seed from the first 4 tokens, the budget
\* model.max_tokens().
Shortened(self, vocab) ==
    Shortened2(self, FoldWrappingAdd(SubSeq(self, 1, Min(4, Len(self)))),
               MAX_TOKENS, vocab)

\* ------------------------------------------------------------ scene.rs
\* str::replace(c, "") for a pattern of one character
Replace(text, c) == SelectSeq(text, LAMBDA x : x # c)

\* usize::to_string, for the counts of the model
CountText(n) ==
    CASE n = 0 -> <<"0">>
      [] n = 1 -> <<"1">>
      [] n = 2 -> <<"2">>
      [] OTHER -> <<"3">>

\* The fold of Scene::new over the characters, with its oxford comma.
RECURSIVE CharactersString(_, _)
CharactersString(starting_characters, i) ==
    IF i = 0 THEN <<>>
    ELSE IF i = 1 THEN starting_characters[1]
    ELSE IF i = Len(starting_characters)
         THEN CharactersString(starting_characters, i - 1)
                \o <<" ", "a", "n", "d", " ">> \o starting_characters[i]
         ELSE CharactersString(starting_characters, i - 1)
                \o <<",", " ">> \o starting_characters[i]

\* Scene::new
SceneNew(model, setting, starting_characters) ==
    [exists |-> TRUE,
     long_term_memory |->
        Tokenize(<<"[">> \o setting \o <<"]", "\n", "[">>
                 \o <<"T", "h", "e", "r", "e", " ", "a", "r", "e", " ">>
                 \o CountText(Len(starting_characters))
                 \o <<" ", "c", "h", "a", "r", "a", "c", "t", "e", "r", "s", ":", " ">>
                 \o CharactersString(starting_characters, Len(starting_characters))
                 \o <<"]", "\n">>),
     short_term_memory |-> <<>>,
     model |-> model,
     characters |-> starting_characters,
     last_speaker |-> NoneStr]

\* Scene::memory_length
MemoryLength(sc) == Len(sc.long_term_memory) + Len(sc.short_term_memory)

\* Faulty variant: the short-term memory alone.
GetFullMemoryShort(sc) == sc.short_term_memory

\* Scene::get_full_memory
GetFullMemory(sc) == sc.long_term_memory \o sc.short_term_memory

\* Faulty variant: compress_memory without its early exit.
TriggersAlways(sc, if_longer_than) == TRUE

\* Whether compress_memory goes past its early exit.
Triggers(sc, if_longer_than) == ~(MemoryLength(sc) < if_longer_than)

\* Scene::compress_memory, for everything the engine may sample: the scene
\* afterwards, with what was handed to the engine and what came back.
CompressMemory(sc, if_longer_than, vocab) ==
    IF ~Triggers(sc, if_longer_than)
    THEN {[scene |-> sc, compressed |-> FALSE, instruction |-> <<>>,
           shortened |-> <<>>, passes |-> 0, panicked |-> FALSE]}
    ELSE {[scene |-> [sc EXCEPT !.long_term_memory = r.tokens,
                                !.short_term_memory = <<>>],
           compressed |-> TRUE, instruction |-> r.instruction,
           shortened |-> r.tokens, passes |-> r.passes, panicked |-> r.panicked] :
             r \in Shortened(GetFullMemory(sc), vocab)}

StoryTurn(story) == [kind |-> "story", character |-> <<>>, text |-> story]
DialogueTurn(character, dialogue) ==
    [kind |-> "dialogue", character |-> character, text |-> dialogue]

\* Faulty variant: the line takes the place of the short-term memory.
PushStoryReplacing(sc, story) ==
    [scene |-> [sc EXCEPT !.short_term_memory = Tokenize(story \o <<"\n">>)],
     turn |-> StoryTurn(story)]

\* Scene::push_story
PushStory(sc, story) ==
    [scene |-> [sc EXCEPT !.short_term_memory = @ \o Tokenize(story \o <<"\n">>)],
     turn |-> StoryTurn(story)]

\* Scene::push_dialogue
PushDialogue(sc, character, dialogue) ==
    LET line == character \o <<":", " ", "\"">> \o dialogue \o <<"\"", "\n">>
    IN  [scene |-> [sc EXCEPT !.short_term_memory = @ \o Tokenize(line),
                              !.last_speaker = Some(character)],
         turn |-> DialogueTurn(character, dialogue)]

StoryStops ==
    {<<"]">>, <<".", "]">>, <<"?", "]">>, <<"'", "]">>, <<":", "]">>, <<"!", "]">>,
     <<"\"", "]">>, <<"]", "\"">>, <<"]", "]">>, <<"]", "[">>, <<".", "\"">>,
     <<"?", "\"">>, <<"!", "\"">>, <<".">>, <<"?">>, <<"!">>}

DialogueStops == {<<"\"">>, <<".", "\"">>, <<"?", "\"">>, <<"!", "\"">>}

\* Scene::infer_story, for everything the engine may sample: from vocab in
\* the turn, from cvocab in the paraphrase.
InferStory(sc, max_tokens, vocab, cvocab) ==
    UNION {
      {LET story == Trim(Replace(DetokenizeAll(n.tokens), "]"))
           p == PushStory(c.scene, story)
       IN  [scene |-> p.scene, turn |-> p.turn, compressed |-> c.compressed,
            instruction |-> c.instruction, shortened |-> c.shortened,
            passes |-> c.passes + n.passes,
            panicked |-> c.panicked \/ n.panicked] :
         n \in TokenStringNext(GetFullMemory(c.scene) \o Tokenize(<<"[">>),
                               max_tokens, 5, StoryStops, vocab)} :
      c \in CompressMemory(sc, MAX_TOKENS \div 2, cvocab)}

\* Scene::infer_dialogue, for everything the engine may sample.
InferDialogue(sc, character, max_tokens, vocab, cvocab) ==
    UNION {
      {LET dialogue == Trim(Replace(DetokenizeAll(n.tokens), "\""))
           p == PushDialogue(c.scene, character, dialogue)
       IN  [scene |-> p.scene, turn |-> p.turn, compressed |-> c.compressed,
            instruction |-> c.instruction, shortened |-> c.shortened,
            passes |-> c.passes + n.passes,
            panicked |-> c.panicked \/ n.panicked] :
         n \in TokenStringNext(GetFullMemory(c.scene)
                                 \o Tokenize(character \o <<":", " ", "\"">>),
                               max_tokens, 5, DialogueStops, vocab)} :
      c \in CompressMemory(sc, MAX_TOKENS \div 2, cvocab)}

\* Faulty variant: the seed from the last 4 tokens of the full memory.
TurnSeedFull(sc) ==
    LET full == GetFullMemory(sc)
    IN  WrappingAdd(
          FoldWrappingAdd(SubSeq(full, SaturatingSub(Len(full), 4) + 1, Len(full))),
          sc.model.seed)

\* The seed of infer_any: the fold over the last 4 tokens of short-term
\* memory, plus the seed of the scene's model.
TurnSeed(sc) ==
    LET short == sc.short_term_memory
    IN  WrappingAdd(
          FoldWrappingAdd(SubSeq(short, SaturatingSub(Len(short), 4) + 1, Len(short))),
          sc.model.seed)

\* Faulty variant: dialogue for two values in five.
SelectsDialogueLess(seed) == seed % 5 < 2

\* seed % 5 < 3
SelectsDialogue(seed) == seed % 5 < 3

\* !seed
Not(seed) == U64Max - seed

\* The index infer_any looks at on an attempt (from 0).
SpeakerIndex(seed, attempt, len) == WrappingAdd(Not(seed), attempt) % len

\* Faulty variant: when the attempts run out, the character looked at first.
RECURSIVE ChooseSpeakerFallback(_, _, _)
ChooseSpeakerFallback(sc, seed, attempt) ==
    IF attempt >= Len(sc.characters)
    THEN IF sc.characters = <<>> THEN NoneStr
         ELSE Some(sc.characters[SpeakerIndex(seed, 0, Len(sc.characters)) + 1])
    ELSE LET character ==
               sc.characters[SpeakerIndex(seed, attempt, Len(sc.characters)) + 1]
         IN  IF sc.last_speaker.some
             THEN IF sc.last_speaker.value # character
                  THEN Some(character)
                  ELSE ChooseSpeakerFallback(sc, seed, attempt + 1)
             ELSE Some(character)

\* The for loop of infer_any over the attempts from `attempt` on: the
\* speaker it calls infer_dialogue with, or none when it runs out.
RECURSIVE ChooseSpeaker(_, _, _)
ChooseSpeaker(sc, seed, attempt) ==
    IF attempt >= Len(sc.characters)
    THEN NoneStr
    ELSE LET character ==
               sc.characters[SpeakerIndex(seed, attempt, Len(sc.characters)) + 1]
         IN  IF sc.last_speaker.some
             THEN IF sc.last_speaker.value # character
                  THEN Some(character)
                  ELSE ChooseSpeaker(sc, seed, attempt + 1)
             ELSE Some(character)

\* Scene::infer_any, for everything the engine may sample: the turn kind
\* and the speaker selected, then infer_dialogue or infer_story, or the
\* panic when no speaker is found.
InferAny(sc, max_tokens, vocab, cvocab) ==
    LET seed == TurnSeed(sc)
        speaker == ChooseSpeaker(sc, seed, 0)
        Selection(r, selected, who) ==
            [scene |-> r.scene, turn |-> r.turn, compressed |-> r.compressed,
             instruction |-> r.instruction, shortened |-> r.shortened,
             passes |-> r.passes, panicked |-> r.panicked,
             seed |-> seed, selected |-> selected, speaker |-> who]
    IN  IF SelectsDialogue(seed)
        THEN IF speaker.some
             THEN {Selection(r, "dialogue", speaker) :
                     r \in InferDialogue(sc, speaker.value, max_tokens, vocab, cvocab)}
             ELSE {[scene |-> sc, turn |-> NoTurn, compressed |-> FALSE,
                    instruction |-> <<>>, shortened |-> <<>>, passes |-> 0,
                    panicked |-> TRUE, seed |-> seed, selected |-> "dialogue",
                    speaker |-> NoneStr]}
        ELSE {Selection(r, "story", NoneStr) : r \in InferStory(sc, max_tokens, vocab, cvocab)}

\* ---------------------------------------------- Model::try_choose_item
NoChoice ==
    [pc |-> "idle", raw_items |-> <<>>, items |-> <<>>, base |-> 0, seed |-> 0,
     attempts |-> 0, next |-> 0, end |-> 0, temperature |-> 0,
     possible_items |-> <<>>, inferred |-> <<>>, response |-> NoneStr,
     inference |-> NoSession, started |-> 0, failed |-> 0]

\* The tokenized prompt create_instruct_prompt builds for try_choose_item:
\* it always holds the instruction, so it is never empty.
ChoicePrompt == <<1, 2>>

\* The guard on the seed: [ok, seed]; the subtraction overflows (ok is FALSE
\* with overflow checks, the wrapped value without) when seed < u64::MAX / 2.
GuardedSeed(seed, attempts, overflow_checks) ==
    IF seed > U64Max - attempts
    THEN [ok |-> ~(overflow_checks /\ seed < U64Max \div 2),
          seed |-> (seed - U64Max \div 2) % U64Modulus]
    ELSE [ok |-> TRUE, seed |-> seed]

\* The end of the range seed..seed + attempts, likewise.
RangeEnd(seed, attempts, overflow_checks) ==
    [ok |-> ~(overflow_checks /\ seed + attempts > U64Max),
     end |-> (seed + attempts) % U64Modulus]

\* items.map(|item| item.trim().to_lowercase())
Normalized(items) == [i \in 1..Len(items) |-> ToLowercase(Trim(items[i]))]

\* Faulty variant: retain the items the text begins with.
RetainedReversed(possible_items, inferred) ==
    LET formatted == ToLowercase(Trim(inferred))
    IN  SelectSeq(possible_items, LAMBDA item : StartsWith(formatted, item))

\* Faulty variant: retain by contains instead of starts_with.
RetainedContains(possible_items, inferred) ==
    LET formatted == ToLowercase(Trim(inferred))
    IN  SelectSeq(possible_items, LAMBDA item : Contains(item, formatted))

\* possible_items.retain(|item| item.starts_with(&formatted)) for the text
\* inferred so far.
Retained(possible_items, inferred) ==
    LET formatted == ToLowercase(Trim(inferred))
    IN  SelectSeq(possible_items, LAMBDA item : StartsWith(item, formatted))

\* Faulty variant: the loop goes on while any item is left.
LoopContinuesWhileAny(possible_items) == Len(possible_items) >= 1

\* The test of the while loop.
LoopContinues(possible_items) == Len(possible_items) > 1

\* Faulty variant: the temperature is left as it is.
SameTemperature(temperature) == temperature

\* temperature += 0.2
RaisedTemperature(temperature) == temperature + 2

\* Faulty variant: the working set starts from the items as they were given.
ClonedRaw(c) == c.raw_items

\* let mut possible_items = items.clone(): the working set an attempt
\* starts with.
Cloned(c) == c.items

\* The call of try_choose_item up to the for loop: the guard, the
\* normalized items, the prompt, the range of seeds.
TryChooseItemCall(items, seed, attempts, overflow_checks) ==
    /\ ch.pc = "idle"
    /\ LET g == GuardedSeed(seed, attempts, overflow_checks)
           e == RangeEnd(g.seed, attempts, overflow_checks)
       IN  ch' = [ch EXCEPT
                    !.pc = IF g.ok /\ e.ok THEN "for" ELSE "panic",
                    !.raw_items = items,
                    !.items = Normalized(items),
                    !.base = seed,
                    !.seed = g.seed,
                    !.attempts = attempts,
                    !.next = g.seed,
                    !.end = e.end,
                    !.temperature = 2]
    /\ op' = [name |-> "try_choose_item", id |-> 0, ret |-> None, context |-> <<>>]
    /\ UNCHANGED <<model_seed, sessions, hist, oracle, forwards, cu, scene, sop, tcall, icall>>

\* The head of the for loop: the next seed of the range and a new session,
\* or the return of response when the range is used up.
AttemptStart ==
    /\ ch.pc = "for"
    /\ IF ch.next < ch.end
       THEN LET inference == InferIter(ChoicePrompt, ch.next, ch.temperature,
                                       None, 10, 0)
            IN  ch' = [ch EXCEPT
                         !.pc = IF inference.exists THEN "while" ELSE "panic",
                         !.next = @ + 1,
                         !.possible_items = Cloned(ch),
                         !.inference = inference,
                         !.inferred = <<>>,
                         !.started = @ + 1]
       ELSE ch' = [ch EXCEPT !.pc = "done"]
    /\ op' = [name |-> "attempt_start", id |-> 0, ret |-> None, context |-> <<>>]
    /\ UNCHANGED <<model_seed, sessions, hist, oracle, forwards, cu, scene, sop, tcall, icall>>

\* The tokens the engine may sample in the model: the text inferred stays
\* within max_text characters.
WithinText(vocab, inferred, max_text) ==
    {t \in vocab : Len(inferred) + Len(Detokenize(t)) <= max_text}

\* One turn of the while loop: next_token, the text, the retain.
AttemptStep(vocab, max_text) ==
    /\ ch.pc = "while"
    /\ LoopContinues(ch.possible_items)
    /\ \E next_token \in WithinText(vocab, ch.inferred, max_text) :
          LET r == NextToken(ch.inference, next_token)
              inferred == ch.inferred \o Detokenize(r.ret)
          IN  /\ ch' = IF r.ret # None
                       THEN [ch EXCEPT
                               !.inference = r.session,
                               !.inferred = inferred,
                               !.possible_items = Retained(@, inferred)]
                       ELSE [ch EXCEPT
                               !.inference = r.session,
                               !.possible_items = <<>>]
              /\ forwards' = IF r.forwarded THEN Inc(forwards) ELSE forwards
              /\ op' = [name |-> "next_token", id |-> 0, ret |-> r.ret,
                        context |-> r.context]
    /\ UNCHANGED <<model_seed, sessions, hist, oracle, cu, scene, sop, tcall, icall>>

\* After the while loop: return the one item left, or raise the
\* temperature and go on with the next seed (the locals of the attempt are
\* dropped).
AttemptEnd ==
    /\ ch.pc = "while"
    /\ ~LoopContinues(ch.possible_items)
    /\ ch' = IF Len(ch.possible_items) = 1
             THEN [ch EXCEPT !.response = Some(ch.possible_items[1]),
                             !.possible_items = <<>>,
                             !.pc = "done"]
             ELSE [ch EXCEPT !.temperature = RaisedTemperature(@),
                             !.possible_items = <<>>,
                             !.inferred = <<>>,
                             !.inference = NoSession,
                             !.failed = @ + 1,
                             !.pc = "for"]
    /\ op' = [name |-> "attempt_end", id |-> 0, ret |-> None, context |-> <<>>]
    /\ UNCHANGED <<model_seed, sessions, hist, oracle, forwards, cu, scene, sop, tcall, icall>>

\* ------------------------------------------------------------ actions
NoHist == [result |-> "none", args |-> <<>>, model_seed |-> 0, outs |-> <<>>]

Init ==
    /\ model_seed \in {0, 1}
    /\ sessions = [id \in SessionIds |-> NoSession]
    /\ hist = [id \in SessionIds |-> NoHist]
    /\ oracle = {}
    /\ forwards = 0
    /\ op = [name |-> "new", id |-> 0, ret |-> None, context |-> <<>>]
    /\ cu = NoFrame
    /\ ch = NoChoice
    /\ scene = NoScene
    /\ sop = NoSceneOp
    /\ tcall = NoCall
    /\ icall = NoPrompt

\* Model::set_seed
SetSeed(seed) ==
    /\ seed # model_seed
    /\ model_seed' = seed
    /\ op' = [name |-> "set_seed", id |-> 0, ret |-> None, context |-> <<>>]
    /\ UNCHANGED <<sessions, hist, oracle, forwards, cu, ch, scene, sop, tcall, icall>>

\* A call of Model::infer_iter whose result goes to slot id.
InferIterCall(id, prompt, seed, temp, top_p, repeat_penalty, repeat_last_n) ==
    /\ hist[id].result = "none"
    /\ LET r == InferIter(prompt, seed, temp, top_p, repeat_penalty, repeat_last_n)
       IN  /\ sessions' = [sessions EXCEPT ![id] = r]
           /\ hist' = [hist EXCEPT ![id] =
                  [result |-> IF r.exists THEN "ok" ELSE "err",
                   args |-> <<prompt, seed, temp, top_p, repeat_penalty, repeat_last_n>>,
                   model_seed |-> model_seed,
                   outs |-> <<>>]]
           /\ op' = [name |-> "infer_iter", id |-> id,
                     ret |-> IF r.exists THEN 0 ELSE None, context |-> <<>>]
    /\ UNCHANGED <<model_seed, oracle, forwards, cu, ch, scene, sop, tcall, icall>>

\* The effect of one next_token call on slot id when the engine, if asked,
\* samples next_token; shared by the callers of next_token.
NextTokenEffect(id, next_token) ==
    LET r == NextToken(sessions[id], next_token)
    IN  /\ sessions' = [sessions EXCEPT ![id] = r.session]
        /\ oracle' = IF r.forwarded
                     THEN oracle \cup {<<SampleKey(sessions[id]), next_token>>}
                     ELSE oracle
        /\ forwards' = IF r.forwarded THEN Inc(forwards) ELSE forwards
        /\ hist' = IF r.forwarded
                   THEN [hist EXCEPT ![id].outs = Append(@, r.ret)]
                   ELSE hist
        /\ op' = [name |-> "next_token", id |-> id, ret |-> r.ret,
                  context |-> r.context]

\* Whether the model lets slot id take another next_token call: always once
\* the session is done, else while it has generated fewer than max_gen.
MayStep(id, max_gen) ==
    /\ sessions[id].exists
    /\ sessions[id].reached_eos \/ Len(hist[id].outs) < max_gen

\* A caller's call of InferIter::next_token (or Iterator::next).
NextTokenCall(id, vocab, max_gen) ==
    /\ MayStep(id, max_gen)
    /\ cu.id # id
    /\ \E next_token \in Sampled(SampleKey(sessions[id]), vocab) :
          NextTokenEffect(id, next_token)
    /\ UNCHANGED <<model_seed, cu, ch, scene, sop, tcall, icall>>

\* A call of InferIter::complete_until on slot id: the session moves into it.
CompleteUntilCall(id, end_string) ==
    /\ sessions[id].exists
    /\ cu.pc = "idle"
    /\ cu' = [pc |-> "loop", id |-> id, end_string |-> end_string,
              response |-> <<>>, got |-> <<>>]
    /\ op' = [name |-> "complete_until", id |-> id, ret |-> None, context |-> <<>>]
    /\ UNCHANGED <<model_seed, sessions, hist, oracle, forwards, ch, scene, sop, tcall, icall>>

\* One turn of the loop of complete_until: next_token, then the test.
CompleteUntilStep(vocab, max_gen) ==
    /\ cu.pc = "loop"
    /\ MayStep(cu.id, max_gen)
    /\ \E next_token \in Sampled(SampleKey(sessions[cu.id]), vocab) :
          /\ NextTokenEffect(cu.id, next_token)
          /\ LET ret == NextToken(sessions[cu.id], next_token).ret
             IN  cu' = [CompleteUntilTurn(cu, ret) EXCEPT !.got = Append(@, ret)]
    /\ UNCHANGED <<model_seed, ch, scene, sop, tcall, icall>>

\* A call of TokenString::next on the buffer self.
NextCall(self, max_tokens, temp, stop_at, vocab) ==
    /\ \E r \in TokenStringNext(self, max_tokens, temp, stop_at, vocab) :
          tcall' = [name |-> "next", self |-> self, seed |-> NextSeed(self),
                    sampler_seed |-> r.sampler_seed, max_tokens |-> max_tokens,
                    stop_at |-> stop_at, panicked |-> r.panicked,
                    tokens |-> r.tokens, passes |-> r.passes]
    /\ UNCHANGED <<model_seed, sessions, hist, oracle, forwards, op, cu, ch, scene, sop, icall>>

\* The scene is there and the process has not panicked; the model lets the
\* short-term memory gather at most MaxShort tokens.
SceneRuns == scene.exists /\ ~sop.panicked
MayTurn == SceneRuns /\ sop.turns < MaxTurns
WithinShort(sc) == Len(sc.short_term_memory) <= MaxShort

\* What the model remembers of one infer_any call for a later one: what
\* the selection may depend on, the long-term memory, what was selected.
Selected(r) ==
    [short_term_memory |-> scene.short_term_memory,
     characters |-> scene.characters,
     last_speaker |-> scene.last_speaker,
     base_seed |-> scene.model.seed,
     long_term_memory |-> scene.long_term_memory,
     selected |-> r.selected,
     speaker |-> r.speaker]

\* Model::new_scene / Scene::new
NewSceneCall(setting, starting_characters) ==
    /\ ~scene.exists
    /\ scene' = SceneNew([seed |-> model_seed], setting, starting_characters)
    /\ sop' = [NoSceneOp EXCEPT !.name = "new", !.pre = scene]
    /\ UNCHANGED <<model_seed, sessions, hist, oracle, forwards, op, cu, ch, tcall, icall>>

\* A call of Scene::compress_memory
CompressMemoryCall(if_longer_than, vocab) ==
    /\ MayTurn
    /\ \E r \in CompressMemory(scene, if_longer_than, vocab) :
          /\ scene' = r.scene
          /\ sop' = [NoSceneOp EXCEPT
                       !.name = "compress_memory", !.pre = scene,
                       !.arg = if_longer_than, !.panicked = r.panicked,
                       !.passes = r.passes, !.compressed = r.compressed,
                       !.instruction = r.instruction, !.shortened = r.shortened,
                       !.saved = sop.saved, !.turns = sop.turns + 1]
    /\ UNCHANGED <<model_seed, sessions, hist, oracle, forwards, op, cu, ch, tcall, icall>>

\* A call of Scene::push_story
PushStoryCall(story) ==
    /\ SceneRuns
    /\ LET r == PushStory(scene, story)
       IN  /\ WithinShort(r.scene)
           /\ scene' = r.scene
           /\ sop' = [NoSceneOp EXCEPT !.name = "push_story", !.pre = scene,
                                       !.turn = r.turn, !.saved = sop.saved,
                                       !.turns = sop.turns]
    /\ UNCHANGED <<model_seed, sessions, hist, oracle, forwards, op, cu, ch, tcall, icall>>

\* A call of Scene::push_dialogue
PushDialogueCall(character, dialogue) ==
    /\ SceneRuns
    /\ LET r == PushDialogue(scene, character, dialogue)
       IN  /\ WithinShort(r.scene)
           /\ scene' = r.scene
           /\ sop' = [NoSceneOp EXCEPT !.name = "push_dialogue", !.pre = scene,
                                       !.turn = r.turn, !.saved = sop.saved,
                                       !.turns = sop.turns]
    /\ UNCHANGED <<model_seed, sessions, hist, oracle, forwards, op, cu, ch, tcall, icall>>

\* A call of Scene::infer_any; with `remember` the model keeps the first
\* selection made for the later ones to be compared with.
InferAnyCall(max_tokens, vocab, cvocab, remember) ==
    /\ MayTurn
    /\ \E r \in InferAny(scene, max_tokens, vocab, cvocab) :
          /\ WithinShort(r.scene)
          /\ scene' = r.scene
          /\ LET saved == IF remember /\ sop.saved = <<>>
                          THEN <<Selected(r)>> ELSE sop.saved
             IN sop' = [name |-> "infer_any", pre |-> scene, arg |-> max_tokens,
                        seed |-> r.seed, selected |-> r.selected,
                        speaker |-> r.speaker, turn |-> r.turn,
                        panicked |-> r.panicked, passes |-> r.passes,
                        compressed |-> r.compressed, instruction |-> r.instruction,
                        shortened |-> r.shortened, saved |-> saved,
                        turns |-> sop.turns + 1]
    /\ UNCHANGED <<model_seed, sessions, hist, oracle, forwards, op, cu, ch, tcall, icall>>

\* A call of create_instruct_prompt with a map the caller has built by
\* inserting the pairs of `inserted` in turn (None when not `given`); the
\* model keeps the call made before, up to MaxCalls calls.
CreateInstructPromptCall(instruction, given, inserted) ==
    /\ icall.calls < MaxCalls
    /\ \E iterated \in IterationOrders(inserted) :
          icall' = [name |-> "create_instruct_prompt",
                    instruction |-> instruction,
                    given |-> given,
                    inserted |-> inserted,
                    iterated |-> iterated,
                    prompt |-> InstructPromptText(instruction, given, iterated),
                    tokens |-> CreateInstructPrompt(instruction, given, iterated),
                    calls |-> icall.calls + 1,
                    before |-> IF icall.calls = 0 THEN <<>>
                               ELSE <<[instruction |-> icall.instruction,
                                       given |-> icall.given,
                                       inserted |-> icall.inserted,
                                       prompt |-> icall.prompt]>>]
    /\ UNCHANGED <<model_seed, sessions, hist, oracle, forwards, op, cu, ch, scene, sop, tcall>>

\* ----------------------------------------------------- specifications
\* Two sessions side by side on one engine.
SessPrompts == {<<>>, <<1>>, <<1, 2>>}
\* seed, temp, top_p, repeat_penalty, repeat_last_n
SessConfigs == {<<0, None, None, 10, 0>>,
                <<0, 5, None, 10, 0>>,
                <<U64Max, 5, 9, 11, 1>>}
SessVocab == {EosToken, 1, 2}

NextSession ==
    \/ \E seed \in {0, 1} : SetSeed(seed)
    \/ \E id \in SessionIds, prompt \in SessPrompts, c \in SessConfigs :
          InferIterCall(id, prompt, c[1], c[2], c[3], c[4], c[5])
    \/ \E id \in SessionIds : NextTokenCall(id, SessVocab, MaxGen)

SpecSession == Init /\ [][NextSession]_vars

\* One session drained by complete_until.
UntilPrompts == {<<1>>}
UntilVocab == {EosToken, 1, 2, 3, 4, 5}
Markers == {<<"]">>, <<"b", "]">>, <<>>}

NextUntil ==
    \/ \E prompt \in UntilPrompts : InferIterCall(1, prompt, 0, 0, None, 10, 0)
    \/ NextTokenCall(1, UntilVocab, 1)
    \/ \E end_string \in Markers : CompleteUntilCall(1, end_string)
    \/ CompleteUntilStep(UntilVocab, MaxGenUntil)

SpecUntil == Init /\ [][NextUntil]_vars


\* try_choose_item on an engine free to sample any token at every step.
Sword == <<"S", "w", "o", "r", "d", " ">>
Shield == <<"s", "h", "i", "e", "l", "d">>
ChoiceLists == {<<Sword, Shield>>,
                <<<<"s">>, <<"s", "w">>>>,
                <<<<"s", "w">>, <<"s", "w">>>>,
                <<<<"s", "w">>>>,
                <<>>}
ChoiceSeeds == {0, 1, U64Max - 1, U64Max}
ChoiceVocab == {EosToken, 6, 7, 8, 9, 10, 11}

NextChoose ==
    \/ \E items \in ChoiceLists, seed \in ChoiceSeeds,
          attempts \in 0..MaxAttempts, overflow_checks \in BOOLEAN :
          TryChooseItemCall(items, seed, attempts, overflow_checks)
    \/ AttemptStart
    \/ AttemptStep(ChoiceVocab, MaxText)
    \/ AttemptEnd

SpecChoose == Init /\ [][NextChoose]_vars

\* The program runs on as long as it has a step to take; the engine is
\* free at every step.
SpecChooseFair == SpecChoose /\ WF_vars(NextChoose)

\* Calls of TokenString::next on buffers of every length around 4.
NextBuffers == {<<>>, <<1>>, <<1, 2>>, <<2, 1, 2>>, <<1, 2, 1, 2>>,
                <<3, 1, 2, 1, 2>>, <<19, 1, 1, 1, 1>>, <<2, 2, 2, 2, 3, 3, 3, 3>>}
NextVocab == {EosToken, 1, 3, 19}
NextStops == {{}, {<<"]">>, <<".">>}}

NextNext ==
    \E self \in NextBuffers, max_tokens \in 0..MaxGen, stop_at \in NextStops :
        NextCall(self, max_tokens, 5, stop_at, NextVocab)

SpecNext == Init /\ [][NextNext]_vars

\* A scene and its turns.
James == <<"J">>
Raven == <<"R">>
Morgan == <<"M">>
CharacterLists == {<<James>>, <<James, Raven>>, <<James, Raven, Morgan>>,
                   <<James, James, Raven>>}
\* What the engine may sample in a turn, and in a paraphrase.
SceneVocab == {EosToken, 1, 15}
CompressVocab == {EosToken, 1}

NextScene ==
    \/ \E starting_characters \in CharacterLists :
          NewSceneCall(<<"s">>, starting_characters)
    \/ \E if_longer_than \in {0, MemoryLength(scene), MemoryLength(scene) + 1} :
          CompressMemoryCall(if_longer_than, CompressVocab)
    \/ PushStoryCall(<<"a">>)
    \/ \E i \in 1..Len(scene.characters) : PushDialogueCall(scene.characters[i], <<"a">>)
    \/ \E max_tokens \in {0, MaxGen} : InferAnyCall(max_tokens, SceneVocab, CompressVocab, FALSE)

SpecScene == Init /\ [][NextScene]_vars

\* A scene whose infer_any selections are compared with an earlier one.
NextTurns ==
    \/ \E starting_characters \in {<<James, Raven>>, <<James, Raven, Morgan>>} :
          NewSceneCall(<<"s">>, starting_characters)
    \/ PushStoryCall(<<"a">>)
    \/ PushDialogueCall(James, <<"a">>)
    \/ \E remember \in BOOLEAN :
          InferAnyCall(MaxGen, SceneVocab, CompressVocab, remember)

SpecTurns == Init /\ [][NextTurns]_vars

\* Calls of create_instruct_prompt.
ContextKey == <<"C">>
ItemsKey == <<"I", "t">>
PairLists == {<<>>,
              <<<<ContextKey, <<"x">>>>>>,
              <<<<Response, <<"[">>>>>>,
              <<<<ContextKey, <<"x">>>>, <<ItemsKey, <<"y">>>>>>,
              <<<<ContextKey, <<"x">>>>, <<Response, <<"[">>>>>>,
              <<<<ContextKey, <<"x">>>>, <<ItemsKey, <<"y">>>>, <<Response, <<"[">>>>>>,
              <<<<Response, <<"[">>>>, <<ItemsKey, <<"y">>>>, <<ContextKey, <<"x">>>>>>}

NextInstruct ==
    \E instruction \in {<<"i">>, <<>>}, given \in BOOLEAN, inserted \in PairLists :
        (given \/ inserted = <<>>) /\ CreateInstructPromptCall(instruction, given, inserted)

SpecInstruct == Init /\ [][NextInstruct]_vars

\* ------------------------------------------------------------- claims
Done(id) == sessions[id].exists /\ sessions[id].reached_eos
Prompt(id) == hist[id].args[1]
\* The tokens slot id has yielded, in order.
Yielded(id) == SelectSeq(hist[id].outs, LAMBDA x : x # None)
\* The tokens the session of slot id has appended to its buffer.
Appended(id) ==
    SubSeq(sessions[id].tokens, Len(Prompt(id)) + 1, Len(sessions[id].tokens))

\* C1: once a session has sampled end-of-text and set reached_eos, every
\* later next_token call returns None without a forward pass and leaves the
\* session (buffer, step counter, flag) as it was; the session never runs
\* again.
C1_DoneIsFinal ==
    [][\A id \in SessionIds :
          Done(id) =>
            /\ sessions'[id] = sessions[id]
            /\ (op'.name = "next_token" /\ op'.id = id) =>
                  /\ op'.ret = None
                  /\ op'.context = <<>>
                  /\ forwards' = forwards
                  /\ oracle' = oracle]_vars

C1_Witness ==
    \E id \in SessionIds :
        /\ Done(id)
        /\ Len(sessions[id].tokens) > Len(Prompt(id))
        /\ op = [name |-> "next_token", id |-> id, ret |-> None, context |-> <<>>]

\* C2: a next_token call whose sampled token is end-of-text returns None,
\* sets reached_eos and appends nothing; no token yielded and no token
\* appended by a session is ever end-of-text.
C2_EosNeverYielded ==
    /\ [](\A id \in SessionIds :
            sessions[id].exists =>
              /\ \A k \in 1..Len(hist[id].outs) : hist[id].outs[k] # EosToken
              /\ \A k \in 1..Len(Appended(id)) : Appended(id)[k] # sessions[id].eos_token)
    /\ [][\A id \in SessionIds :
            (/\ sessions[id].exists
             /\ forwards' # forwards
             /\ op'.id = id
             /\ <<SampleKey(sessions[id]), sessions[id].eos_token>> \in oracle')
            => /\ op'.ret = None
               /\ sessions'[id].reached_eos
               /\ sessions'[id].tokens = sessions[id].tokens]_vars

C2_Witness ==
    \E id \in SessionIds :
        /\ Done(id)
        /\ hist[id].outs = <<1, None>>
        /\ sessions[id].tokens = Prompt(id) \o <<1>>
        /\ op = [name |-> "next_token", id |-> id, ret |-> None,
                 context |-> <<1>>]

\* C3: two sessions created by infer_iter under the same model seed with
\* the same prompt, seed, temperature, top_p, repeat_penalty and
\* repeat_last_n return the same value at every step both have taken, so
\* they yield the same tokens and are done at the same step.
C3_Determinism ==
    \A i, j \in SessionIds :
        (/\ hist[i].result = "ok"
         /\ hist[j].result = "ok"
         /\ hist[i].args = hist[j].args
         /\ hist[i].model_seed = hist[j].model_seed)
        => \A k \in 1..Min(Len(hist[i].outs), Len(hist[j].outs)) :
              hist[i].outs[k] = hist[j].outs[k]

C3_Witness ==
    /\ hist[1].result = "ok"
    /\ hist[2].result = "ok"
    /\ hist[1].args = hist[2].args
    /\ hist[1].model_seed = hist[2].model_seed
    /\ hist[1].args[3] # None
    /\ hist[1].outs = <<2, None>>
    /\ hist[2].outs = <<2, None>>

\* The text complete_until has to return for the values next_token gave it:
\* the decoded tokens before the first one that contains the marker, then
\* that token's text up to the marker.
RECURSIVE UpToMarker(_, _)
UpToMarker(rets, marker) ==
    IF rets = <<>> \/ Head(rets) = None
    THEN <<>>
    ELSE LET text == Detokenize(Head(rets))
             At(i) == /\ i + Len(marker) <= Len(text)
                      /\ \A k \in 1..Len(marker) : text[i + k] = marker[k]
         IN  IF \E i \in 0..Len(text) : At(i)
             THEN LET i == CHOOSE i \in 0..Len(text) :
                             At(i) /\ \A j \in 0..(i - 1) : ~At(j)
                  IN  [k \in 1..i |-> text[k]]
             ELSE text \o UpToMarker(Tail(rets), marker)

\* The values next_token returned to the running complete_until.
Drained == cu.got

HasMarker(ret) == ret # None /\ Contains(Detokenize(ret), cu.end_string)

\* C4: complete_until(marker) consumes tokens up to the first one whose
\* decoded text contains the marker and no token after it, returns the
\* decoded text of the earlier tokens followed by that token's text before
\* the marker, and leaves the stopping token appended to the buffer; while
\* it runs no consumed token contains the marker.
C4_StopMarker ==
    /\ cu.pc = "loop" =>
          /\ \A k \in 1..Len(Drained) : ~HasMarker(Drained[k]) /\ Drained[k] # None
          /\ cu.response = DetokenizeAll(Drained)
    /\ cu.pc = "done" =>
          /\ Drained # <<>>
          /\ \A k \in 1..(Len(Drained) - 1) : ~HasMarker(Drained[k]) /\ Drained[k] # None
          /\ HasMarker(Drained[Len(Drained)]) \/ Drained[Len(Drained)] = None
          /\ cu.response = UpToMarker(Drained, cu.end_string)
          /\ sessions[cu.id].tokens = Prompt(cu.id) \o Yielded(cu.id)
          /\ forwards = Len(hist[cu.id].outs)

\* The stream "ab]cd" with the marker "]": "ab" is returned and the token
\* "cd" is never asked for.
C4_Witness ==
    /\ cu.pc = "done"
    /\ cu.end_string = <<"]">>
    /\ Drained = <<1, 2, 3>>
    /\ cu.response = <<"a", "b">>
    /\ sessions[cu.id].tokens = Prompt(cu.id) \o <<1, 2, 3>>
    /\ forwards = 3

\* C5: infer_iter with an empty prompt returns an error and creates no
\* session, and makes no forward pass; every session has a non-empty
\* buffer, so no forward pass is given an empty context.
C5_EmptyPrompt ==
    /\ [](\A id \in SessionIds :
            /\ hist[id].result # "none" =>
                  (hist[id].result = "err" <=> Prompt(id) = <<>>)
            /\ hist[id].result = "err" =>
                  ~sessions[id].exists /\ hist[id].outs = <<>>
            /\ sessions[id].exists => sessions[id].tokens # <<>>)
    /\ [][/\ forwards' # forwards => op'.context # <<>>
          /\ op'.name = "infer_iter" => forwards' = forwards /\ oracle' = oracle]_vars

C5_Witness ==
    /\ hist[1].result = "err"
    /\ ~sessions[1].exists
    /\ op = [name |-> "infer_iter", id |-> 1, ret |-> None, context |-> <<>>]
    /\ forwards > 0

\* The normalized text of the running attempt of try_choose_item.
Formatted == ToLowercase(Trim(ch.inferred))

\* The positions of the candidates that start with the normalized text.
Matching ==
    {i \in 1..Len(ch.raw_items) :
        StartsWith(ToLowercase(Trim(ch.raw_items[i])), Formatted)}

\* C6: whenever try_choose_item returns Some(x), x is one of the input
\* items trimmed and lower-cased, and the trimmed, lower-cased text of the
\* successful attempt is a prefix of x and of no other candidate.
C6_ChosenIsCandidate ==
    (ch.pc = "done" /\ ch.response.some) =>
        \E i \in 1..Len(ch.raw_items) :
            /\ ch.response.value = ToLowercase(Trim(ch.raw_items[i]))
            /\ Matching = {i}

C6_Witness ==
    /\ ch.pc = "done"
    /\ ch.raw_items = <<Sword, Shield>>
    /\ ch.inferred = <<" ", "S", "w">>
    /\ ch.response = Some(<<"s", "w", "o", "r", "d">>)

\* C7: as soon as the normalized text of an attempt is a prefix of exactly
\* one candidate, the next step of try_choose_item returns that candidate:
\* no further token is generated and no further attempt started; until the
\* session is used up the working set is the set of candidates the text is
\* a prefix of.
C7_Convergence ==
    /\ []((ch.pc = "while" /\ ~ch.inference.reached_eos) =>
            ch.possible_items =
              SelectSeq(ch.items, LAMBDA item : StartsWith(item, Formatted)))
    /\ [][(ch.pc = "while" /\ Cardinality(Matching) = 1) =>
            /\ ch'.pc = "done"
            /\ \E i \in Matching :
                  ch'.response = Some(ToLowercase(Trim(ch.raw_items[i])))
            /\ ch'.started = ch.started
            /\ ch'.inferred = ch.inferred
            /\ forwards' = forwards
            /\ op'.name = "attempt_end"]_vars

\* {sword, shield} and a generation that begins "sw": "sword", on the
\* first attempt.
C7_Witness ==
    /\ ch.pc = "done"
    /\ ch.raw_items = <<Sword, Shield>>
    /\ ch.inferred = <<"s", "w">>
    /\ ch.response = Some(<<"s", "w", "o", "r", "d">>)
    /\ ch.attempts = 2
    /\ ch.started = 1
    /\ forwards = 2

\* C8: attempt a (from 0) of try_choose_item runs its session with the
\* seed base + a, base being the seed the for loop starts from, and the
\* temperature 0.2 + a * 0.2; an attempt whose working set is empty fails,
\* and after a failed attempt a with a + 1 < attempts the next attempt is
\* started, with a fresh working set.
C8_Escalation ==
    /\ [](ch.pc = "while" =>
            /\ ch.failed = ch.started - 1
            /\ ch.seed + ch.failed <= U64Max
            /\ ch.inference.logits_processor.seed =
                  (ch.seed + ch.failed + model_seed) % U64Modulus
            /\ ch.inference.logits_processor.temp = 2 + ch.failed * 2)
    /\ [][/\ (ch.pc = "while" /\ ch.possible_items = <<>>) =>
                (ch'.pc = "for" /\ ch'.failed = ch.failed + 1)
          /\ (ch.pc = "for" /\ ch.failed >= 1 /\ ch.failed < ch.attempts) =>
                /\ ch'.pc = "while"
                /\ ch'.started = ch.started + 1
                /\ ch'.possible_items = ch.items
                /\ ch'.inferred = <<>>]_vars

\* {sword, shield}: the first attempt failed; the second one runs, with the
\* next seed and the temperature raised, and has read "x", a prefix of neither.
C8_Witness ==
    /\ ch.pc = "while"
    /\ ch.raw_items = <<Sword, Shield>>
    /\ ch.failed = 1
    /\ ch.started = 2
    /\ ch.inference.logits_processor.temp = 4
    /\ ch.inferred = <<"x">>
    /\ ch.possible_items = <<>>

\* C9: try_choose_item starts at most `attempts` sessions; it returns the
\* candidate of the first successful attempt; when every attempt fails it
\* returns None and does not crash; with attempts = 0 it returns None
\* without starting a session.
C9_AttemptBound ==
    /\ ch.started <= ch.attempts
    /\ ch.pc # "panic"
    /\ (ch.pc = "done" /\ ch.response.some) => ch.failed = ch.started - 1
    /\ (ch.pc = "done" /\ ~ch.response.some) => ch.failed = ch.started
    /\ (ch.pc # "idle" /\ ch.attempts = 0) =>
          ch.started = 0 /\ (ch.pc = "done" => ~ch.response.some)

\* C10: every call of try_choose_item comes to an end, whatever the engine
\* samples.
C10_Terminates == (ch.pc # "idle") ~> (ch.pc \in {"done", "panic"})

\* C11: after the guard of try_choose_item the adjusted base seed satisfies
\* adjusted + attempts <= u64::MAX, and the adjustment is made only on a
\* seed it does not underflow on; so every attempt seed is in range.
C11_SeedGuard ==
    ch.pc # "idle" =>
        /\ ch.seed + ch.attempts <= U64Max
        /\ ch.base > U64Max - ch.attempts => ch.base >= U64Max \div 2

\* The candidates of a working set, each once.
Distinct(items) == {items[i] : i \in 1..Len(items)}

\* C12: a normalized candidate that occurs more than once counts once: when
\* the candidates left in the working set are all the same one, the loop
\* is over and that candidate is what the call returns, as it would on the
\* list without duplicates.
C12_DuplicatesCollapse ==
    /\ (ch.pc = "while" /\ Cardinality(Distinct(ch.possible_items)) = 1) =>
          Len(ch.possible_items) = 1
    /\ (ch.pc = "done" /\ ch.attempts >= 1 /\ Cardinality(Distinct(ch.items)) = 1) =>
          ch.response = Some(ch.items[1])

\* The sum of the last k entries of a buffer.
RECURSIVE SumOfLast(_, _)
SumOfLast(tokens, k) ==
    IF k = 0 THEN 0 ELSE tokens[Len(tokens) - k + 1] + SumOfLast(tokens, k - 1)

\* C20 (as stated): TokenString::next uses as seed the wrapping sum of the
\* last 4 token ids of its buffer, and the seed 0 when the buffer holds
\* fewer than 4 tokens.
C20_DefaultSeed ==
    tcall.name = "next" =>
        /\ Len(tcall.self) >= 4 => tcall.seed = SumOfLast(tcall.self, 4) % U64Modulus
        /\ Len(tcall.self) < 4 => tcall.seed = 0

\* C20 (amended): TokenString::next uses as seed the wrapping sum of the
\* last 4 token ids of its buffer, of all its token ids when it holds fewer
\* than 4 (so 0 for the empty buffer only); the sum never traps, and the
\* session samples with that seed plus the model seed.
C20_DefaultSeedAmended ==
    tcall.name = "next" =>
        /\ tcall.seed = SumOfLast(tcall.self, Min(4, Len(tcall.self))) % U64Modulus
        /\ tcall.panicked <=> tcall.self = <<>>
        /\ ~tcall.panicked =>
              tcall.sampler_seed = (tcall.seed + model_seed) % U64Modulus

\* A buffer of 2 tokens: the seed is their sum; and one of 5 whose last 4
\* sum past the width.
C20_Witness ==
    /\ tcall.name = "next"
    /\ tcall.self = <<3, 1, 2, 1, 2>>
    /\ tcall.seed = 6 % U64Modulus
    /\ tcall.tokens = <<1, 19>>

\* A compress_memory call that went past its early exit ran last.
Compressed == sop.name = "compress_memory" /\ MemoryLength(sop.pre) >= sop.arg

\* C13: whenever compress_memory(threshold) is called with
\* memory_length >= threshold, memory_length after the call is strictly
\* less than before it, whatever the paraphrase generation produces within
\* its token budget.
C13_CompressionShrinks ==
    Compressed => MemoryLength(scene) < MemoryLength(sop.pre)

\* C14: whenever compress_memory(threshold) is called with
\* memory_length >= threshold, short-term memory is empty afterwards and
\* long-term memory is the buffer the paraphrase produced, the paraphrase
\* having been asked for long_term ++ short_term as they were before.
C14_CompressionReplaces ==
    Compressed =>
        /\ sop.compressed
        /\ scene.short_term_memory = <<>>
        /\ scene.long_term_memory = sop.shortened
        /\ sop.instruction =
              Tokenize(ParaphraseInstruction)
                \o sop.pre.long_term_memory \o sop.pre.short_term_memory
        /\ scene.characters = sop.pre.characters
        /\ scene.last_speaker = sop.pre.last_speaker

C14_Witness ==
    /\ Compressed
    /\ sop.pre.long_term_memory = <<1>>
    /\ sop.pre.short_term_memory = Tokenize(<<"a", "\n">>)
    /\ scene.long_term_memory = <<1, 1>>
    /\ scene.short_term_memory = <<>>

\* C15: compress_memory(threshold) with memory_length < threshold changes
\* nothing (long-term memory, short-term memory, characters, last_speaker)
\* and makes no engine call.
C15_CompressionNoOp ==
    (sop.name = "compress_memory" /\ MemoryLength(sop.pre) < sop.arg) =>
        /\ scene = sop.pre
        /\ ~sop.compressed
        /\ sop.passes = 0
        /\ sop.instruction = <<>>

C15_Witness ==
    /\ sop.name = "compress_memory"
    /\ sop.arg = MemoryLength(sop.pre) + 1
    /\ sop.pre.short_term_memory # <<>>
    /\ sop.pre.last_speaker.some
    /\ scene = sop.pre
    /\ sop.passes = 0

\* The seed of the infer_any call that ran last, from the scene before it.
TurnValue ==
    LET short == sop.pre.short_term_memory
    IN  (SumOfLast(short, Min(4, Len(short))) + sop.pre.model.seed) % U64Modulus

\* C16: with v the wrapping sum of the last 4 short-term token ids (of all
\* of them if fewer) plus the scene's base seed, infer_any selects dialogue
\* exactly when v mod 5 < 3 and story otherwise, and the turn it returns is
\* of the kind selected.
C16_TurnKind ==
    sop.name = "infer_any" =>
        /\ sop.seed = TurnValue
        /\ sop.selected = "dialogue" <=> TurnValue % 5 < 3
        /\ sop.selected = "story" <=> ~(TurnValue % 5 < 3)
        /\ sop.turn.kind # "none" => sop.turn.kind = sop.selected
        /\ sop.selected = "story" => sop.turn.kind = "story"

\* A story turn on a short-term memory of more than 4 tokens, and v = 3.
C16_Witness ==
    /\ sop.name = "infer_any"
    /\ Len(sop.pre.short_term_memory) > 4
    /\ TurnValue = 3
    /\ sop.turn.kind = "story"
    /\ scene.short_term_memory # <<>>

\* The indices infer_any looks at, in order, and the first whose character
\* is not the last speaker (0 when there is none).
LooksAt(attempt) ==
    (((U64Max - TurnValue + attempt) % U64Modulus) % Len(sop.pre.characters)) + 1
Differs(attempt) ==
    ~sop.pre.last_speaker.some
      \/ sop.pre.characters[LooksAt(attempt)] # sop.pre.last_speaker.value
FirstDiffering ==
    CHOOSE a \in 0..Len(sop.pre.characters) :
        /\ a < Len(sop.pre.characters) => Differs(a)
        /\ \A b \in 0..(a - 1) : ~Differs(b)

\* C17: when infer_any selects dialogue in a scene with at least two
\* distinct characters, the speaker is the character at the first index
\* ((!seed) + attempt) mod character_count, attempt = 0, 1, ..,
\* character_count - 1, that differs from last_speaker; so the speaker is
\* never last_speaker and the fatal branch is not reached.
C17_SpeakerSelection ==
    (/\ sop.name = "infer_any"
     /\ sop.selected = "dialogue"
     /\ Cardinality(Distinct(sop.pre.characters)) >= 2) =>
        /\ ~sop.panicked
        /\ FirstDiffering < Len(sop.pre.characters)
        /\ sop.speaker = Some(sop.pre.characters[LooksAt(FirstDiffering)])
        /\ sop.speaker # sop.pre.last_speaker
        /\ sop.turn.kind = "dialogue"
        /\ sop.turn.character = sop.speaker.value
        /\ scene.last_speaker = sop.speaker

\* C17 for scenes whose characters are pairwise distinct.
C17_DistinctNames ==
    Cardinality(Distinct(sop.pre.characters)) = Len(sop.pre.characters) =>
        C17_SpeakerSelection

\* No character of the scene before the call differs from last_speaker.
NoneDiffers ==
    /\ sop.pre.last_speaker.some
    /\ \A i \in 1..Len(sop.pre.characters) :
          sop.pre.characters[i] = sop.pre.last_speaker.value

\* C18: when infer_any selects dialogue and no character differs from
\* last_speaker, the call panics: no speaker is substituted, no turn is
\* returned, no engine call is made, and the memories and last_speaker are
\* as they were.
C18_NoSpeakerIsFatal ==
    (sop.name = "infer_any" /\ sop.selected = "dialogue" /\ NoneDiffers) =>
        /\ sop.panicked
        /\ sop.speaker = NoneStr
        /\ sop.turn = NoTurn
        /\ sop.passes = 0
        /\ scene = sop.pre

C18_Witness ==
    /\ sop.name = "infer_any"
    /\ sop.pre.characters = <<James>>
    /\ sop.pre.last_speaker = Some(James)
    /\ sop.panicked
    /\ scene = sop.pre
    /\ scene.short_term_memory # <<>>

\* The infer_any call that ran last was made on the same short-term
\* memory, characters, last_speaker and base seed as the remembered one.
SameSelectionInputs ==
    /\ sop.name = "infer_any"
    /\ sop.saved # <<>>
    /\ sop.turns >= 2
    /\ sop.saved[1].short_term_memory = sop.pre.short_term_memory
    /\ sop.saved[1].characters = sop.pre.characters
    /\ sop.saved[1].last_speaker = sop.pre.last_speaker
    /\ sop.saved[1].base_seed = sop.pre.model.seed

\* C19: two infer_any calls on the same short-term memory, characters,
\* last_speaker and base seed select the same turn kind and the same
\* speaker, whatever the long-term memory holds.
C19_SelectionDeterminism ==
    SameSelectionInputs =>
        /\ sop.selected = sop.saved[1].selected
        /\ sop.speaker = sop.saved[1].speaker

\* Two calls on the same short-term memory of fewer than 4 tokens and on
\* different long-term memories.
C19_Witness ==
    /\ SameSelectionInputs
    /\ sop.saved[1].long_term_memory # sop.pre.long_term_memory
    /\ Len(sop.pre.short_term_memory) \in 1..3
    /\ sop.selected = sop.saved[1].selected

\* The sections of a list of pairs in the order of the list, "Response"
\* left out.
RECURSIVE SectionsInOrder(_, _)
SectionsInOrder(pairs, i) ==
    IF i > Len(pairs) THEN <<>>
    ELSE (IF pairs[i][1] = Response THEN <<>>
          ELSE <<"#", "#", "#", " ">> \o pairs[i][1] \o <<":", "\n">>
                 \o pairs[i][2] \o <<"\n">>)
           \o SectionsInOrder(pairs, i + 1)

\* The value given for "Response", or the empty text.
ResponseValue(pairs) ==
    IF \E i \in 1..Len(pairs) : pairs[i][1] = Response
    THEN pairs[CHOOSE i \in 1..Len(pairs) : pairs[i][1] = Response][2]
    ELSE <<>>

\* The end of every prompt: the instruction, the response header, the
\* "Response" value.
PromptTail ==
    <<"#", "#", "#", " ">> \o Instruction \o <<":", "\n">> \o icall.instruction \o <<"\n">>
      \o <<"#", "#", "#", " ">> \o Response \o <<":", "\n">>
      \o ResponseValue(icall.inserted)

\* C21: create_instruct_prompt emits the sections of the pairs in the
\* order of the given list, "Response" left out, then the instruction and
\* the response header, then the "Response" value if there is one; and two
\* calls with the same input give the same prompt.
C21_PromptAssembly ==
    icall.name = "create_instruct_prompt" =>
        /\ icall.prompt = SectionsInOrder(icall.inserted, 1) \o PromptTail
        /\ \A k \in 1..Len(icall.before) :
              (/\ icall.before[k].instruction = icall.instruction
               /\ icall.before[k].given = icall.given
               /\ icall.before[k].inserted = icall.inserted)
              => icall.before[k].prompt = icall.prompt

\* What holds of the prompt: the sections in the order the map iterates
\* its pairs, and the end as documented.
C21_IterationOrder ==
    icall.name = "create_instruct_prompt" =>
        /\ icall.prompt = SectionsInOrder(icall.iterated, 1) \o PromptTail
        /\ icall.tokens = Tokenize(icall.prompt)

\* C22: push_story and push_dialogue append their line to the short-term
\* memory, whose content so far stays in front, and return the turn of
\* their kind; they leave the long-term memory and the characters as they
\* are; push_dialogue sets last_speaker to its character, push_story
\* leaves it; the long-term memory changes only where compress_memory
\* compresses (and when the scene is made).
C22_PushFrame ==
    /\ [](sop.name = "push_story" =>
            /\ scene.short_term_memory =
                  sop.pre.short_term_memory \o Tokenize(sop.turn.text \o <<"\n">>)
            /\ sop.turn.kind = "story"
            /\ scene.long_term_memory = sop.pre.long_term_memory
            /\ scene.characters = sop.pre.characters
            /\ scene.last_speaker = sop.pre.last_speaker)
    /\ [](sop.name = "push_dialogue" =>
            /\ scene.short_term_memory =
                  sop.pre.short_term_memory
                    \o Tokenize(sop.turn.character \o <<":", " ", "\"">>
                                  \o sop.turn.text \o <<"\"", "\n">>)
            /\ sop.turn.kind = "dialogue"
            /\ scene.long_term_memory = sop.pre.long_term_memory
            /\ scene.characters = sop.pre.characters
            /\ scene.last_speaker = Some(sop.turn.character))
    /\ [][scene'.long_term_memory # scene.long_term_memory =>
            \/ sop'.name = "new"
            \/ sop'.compressed /\ sop'.name \in {"compress_memory", "infer_any"}]_vars

\* A story line pushed behind another one, someone having spoken before.
C22_Witness ==
    /\ sop.name = "push_story"
    /\ sop.pre.short_term_memory = Tokenize(<<"a", "\n">>)
    /\ scene.short_term_memory = Tokenize(<<"a", "\n", "a", "\n">>)
    /\ scene.last_speaker.some

\* C23: a call of TokenString::next (next_2 does the work) returns at most
\* max_tokens tokens, for every max_tokens from 0 on, whatever the engine
\* samples and whether a stop marker comes or not.
C23_TokenBudget ==
    (tcall.name = "next" /\ ~tcall.panicked) =>
        Len(tcall.tokens) <= tcall.max_tokens

\* What holds: at most max_tokens tokens, and one when max_tokens is 0.
C23_BudgetFromOne ==
    (tcall.name = "next" /\ ~tcall.panicked) =>
        /\ tcall.max_tokens >= 1 => Len(tcall.tokens) <= tcall.max_tokens
        /\ Len(tcall.tokens) <= 1 \/ tcall.max_tokens > 1

\* C24: the first next_token call of a session gives the engine the whole
\* buffer, the prompt; every later call of a running session gives it one
\* token, the one appended last; and every next_token call of a running
\* session makes exactly one forward pass.
C24_IncrementalDecode ==
    [][\A id \in SessionIds :
          (/\ op'.name = "next_token"
           /\ op'.id = id
           /\ sessions[id].exists
           /\ ~sessions[id].reached_eos)
          => /\ forwards' # forwards
             /\ forwards < WindowLen => forwards' = forwards + 1
             /\ Len(hist'[id].outs) = Len(hist[id].outs) + 1
             /\ op'.context =
                  IF hist[id].outs = <<>>
                  THEN Prompt(id)
                  ELSE <<Appended(id)[Len(Appended(id))]>>]_vars

\* The second step of a session on the prompt [1, 2] that yielded 1: the
\* engine is given [1].
C24_Witness ==
    \E id \in SessionIds :
        /\ sessions[id].exists
        /\ Prompt(id) = <<1, 2>>
        /\ sessions[id].tokens = <<1, 2, 1, 2>>
        /\ forwards = 2
        /\ op = [name |-> "next_token", id |-> id, ret |-> 2, context |-> <<1>>]

\* C25: in every state of a session, the done ones included, the step
\* counter is the number of tokens the session has appended to its buffer
\* and yielded: the step that samples end-of-text does not advance it.
C25_StepCounter ==
    \A id \in SessionIds :
        sessions[id].exists =>
            /\ sessions[id].step = Len(Appended(id))
            /\ sessions[id].step = Len(Yielded(id))

\* C25, amended: the step counter is the number of steps that sampled a
\* token: the number of tokens appended and yielded while the session
\* runs, and one more once it is done, the step that sampled end-of-text
\* being counted too.
C25_StepCounterAmended ==
    \A id \in SessionIds :
        sessions[id].exists =>
            /\ sessions[id].step = Len(hist[id].outs)
            /\ Len(Appended(id)) = Len(Yielded(id))
            /\ sessions[id].step =
                  Len(Appended(id)) + (IF sessions[id].reached_eos THEN 1 ELSE 0)

\* A session done after one token: two steps counted, one token appended.
C25_Witness ==
    \E id \in SessionIds :
        /\ Done(id)
        /\ sessions[id].step = 2
        /\ Len(Appended(id)) = 1
        /\ hist[id].outs = <<2, None>>

\* C28: the buffer of a session is its prompt followed by the tokens it
\* has yielded so far, in the order it yielded them; no step changes what
\* the buffer holds already, and the buffer never gets shorter.
C28_AppendOnly ==
    /\ [](\A id \in SessionIds :
            sessions[id].exists => sessions[id].tokens = Prompt(id) \o Yielded(id))
    /\ [][\A id \in SessionIds :
            sessions[id].exists =>
              /\ sessions'[id].exists
              /\ Len(sessions'[id].tokens) >= Len(sessions[id].tokens)
              /\ SubSeq(sessions'[id].tokens, 1, Len(sessions[id].tokens))
                    = sessions[id].tokens]_vars

\* The prompt [1, 2] followed by 2 and 1, yielded in this order.
C28_Witness ==
    \E id \in SessionIds :
        /\ sessions[id].exists
        /\ Prompt(id) = <<1, 2>>
        /\ Yielded(id) = <<2, 1>>
        /\ sessions[id].tokens = <<1, 2, 2, 1>>

\* C26: every attempt of try_choose_item starts with the whole list of
\* normalized candidates as its working set, whatever the attempts before
\* did; within an attempt the working set after a token holds only
\* candidates it held before, so it never grows; and every candidate in it
\* begins with the trimmed, lower-cased text of the attempt.
C26_CandidateSet ==
    /\ [][(ch.pc = "for" /\ ch'.pc = "while") =>
            /\ ch'.possible_items = Normalized(ch.raw_items)
            /\ ch'.inferred = <<>>]_vars
    /\ [][(ch.pc = "while" /\ ch'.pc = "while") =>
            /\ Len(ch'.possible_items) <= Len(ch.possible_items)
            /\ \A i \in 1..Len(ch'.possible_items) :
                  \E j \in 1..Len(ch.possible_items) :
                      ch'.possible_items[i] = ch.possible_items[j]]_vars
    /\ [](ch.pc = "while" =>
            \A i \in 1..Len(ch.possible_items) :
                StartsWith(ch.possible_items[i], ToLowercase(Trim(ch.inferred))))

\* The second attempt on {sword, shield} after " S": both candidates are
\* in the working set again.
C26_Witness ==
    /\ ch.pc = "while"
    /\ ch.raw_items = <<Sword, Shield>>
    /\ ch.started = 2
    /\ ch.inferred = <<" ", "S">>
    /\ ch.possible_items = <<<<"s", "w", "o", "r", "d">>, Shield>>

\* C29: try_choose_item never returns a candidate that another normalized
\* candidate of the list begins with and is longer than ("book" beside
\* "bookshelf").
C29_NoProperPrefix ==
    (ch.pc = "done" /\ ch.response.some) =>
        ~\E i \in 1..Len(ch.items) :
            /\ ch.items[i] # ch.response.value
            /\ StartsWith(ch.items[i], ch.response.value)

\* {s, sw}: the text "sw" selects "sw", the longer one.
C29_Witness ==
    /\ ch.pc = "done"
    /\ ch.raw_items = <<<<"s">>, <<"s", "w">>>>
    /\ ch.inferred = <<"s", "w">>
    /\ ch.response = Some(<<"s", "w">>)

\* C30: with one candidate and attempts >= 1, try_choose_item returns the
\* candidate on its first attempt, without a forward pass; with no
\* candidate it returns None after its attempts, without a forward pass.
C30_DegenerateLists ==
    /\ (ch.pc \in {"done", "panic"} /\ Len(ch.items) = 1 /\ ch.attempts >= 1) =>
          /\ ch.pc = "done"
          /\ ch.response = Some(ch.items[1])
          /\ ch.started = 1
          /\ forwards = 0
    /\ (ch.pc \in {"done", "panic"} /\ Len(ch.items) = 0) =>
          /\ ch.pc = "done"
          /\ ch.response = NoneStr
          /\ ch.started = ch.attempts
          /\ forwards = 0

\* What holds: the same, for the calls whose seeds are in range after the
\* guard.
C30_DegenerateInRange ==
    (/\ ch.seed + ch.attempts <= U64Max
     /\ ch.base > U64Max - ch.attempts => ch.base >= U64Max \div 2)
    => C30_DegenerateLists

\* C27: the memory infer_story and infer_dialogue build their prompt from,
\* the one their compress_memory(max_tokens / 2) step leaves, is shorter
\* than that threshold, whatever pushes and turns came before.
C27_BoundedContext ==
    (sop.name = "infer_any" /\ ~sop.panicked) =>
        (IF sop.compressed THEN Len(sop.shortened) ELSE MemoryLength(sop.pre))
            < MAX_TOKENS \div 2

\* What holds: the memory is below the threshold when no compression was
\* due, and within the budget of the paraphrase, max_tokens, when one was.
C27_WithinBudget ==
    (sop.name = "infer_any" /\ ~sop.panicked) =>
        IF sop.compressed
        THEN Len(sop.shortened) <= MAX_TOKENS
        ELSE MemoryLength(sop.pre) < MAX_TOKENS \div 2

====
